---- MODULE Spec2Model ----
(***************************************************************************)
(* A model of application.py: a Quart application whose twelve routes      *)
(* forward requests to the Google Calendar client (blocking) and to the    *)
(* Notion client (asynchronous).  One request is followed from its arrival *)
(* to its HTTP response.  The upstream providers are stubs: they serve     *)
(* pages, block children and one-shot answers, and any call may fail.      *)
(***************************************************************************)
EXTENDS Integers, Sequences, FiniteSets, TLC

VARIABLES
    endpoint,           \* the route the request was sent to
    args,               \* the request's required parameters: name -> how it is given
    json_body,          \* what request.get_json() returns: "object" (a dict) or "none"
    token_file,         \* the calendar credentials kept in token.json
    provider,           \* the pages the paginated upstream serves
    tree,               \* the block tree of the page: tree[i] is the parent of block i
    pc,                 \* position of the handler
    acc,                \* events (read_events) / results (query_notion_database)
    cursor,             \* page_token / start_cursor
    blocks_to_process,  \* retrieve_all_blocks: the work list
    collected_blocks,   \* retrieve_all_blocks: the output so far
    retrieved,          \* what retrieve_all_blocks returned: a list or a string
    calls,              \* every interaction with an upstream provider, in order
    response            \* the HTTP response, NoResponse until the handler answers

envVars == <<endpoint, args, json_body, provider, tree>>
loopVars == <<acc, cursor>>
blockVars == <<blocks_to_process, collected_blocks, retrieved>>
vars == <<endpoint, args, json_body, token_file, provider, tree, pc, acc, cursor,
          blocks_to_process, collected_blocks, retrieved, calls, response>>

----------------------------------------------------------------------------
(* Bounds of the model. *)

\* The most pages a stub provider holds.
MaxPages == 3
\* The most calls one pagination loop is followed for (the code has no cap).
MaxCalls == 4
\* The most blocks below the root of a page.
MaxBlocks == 4
\* The longest block sequence handed to extract_text_from_blocks directly.
MaxSeq == 3

----------------------------------------------------------------------------
(* Python values. *)

\* None, for cursor tokens; every token a provider hands out is a page number >= 1.
None == 0

\* dict.get(key, default)
Get(d, k, default) == IF k \in DOMAIN d THEN d[k] ELSE default

\* {}
EmptyDict == <<>>

\* How a required parameter is given: not at all, as an empty value, or as a value.
ArgValues == {"absent", "empty", "value"}

\* Python truthiness of request.args.get(name) / data.get(name): None and "" are falsy.
Truthy(v) == v = "value"

----------------------------------------------------------------------------
(* The routes. *)

CalendarEndpoints == {"read_events", "create_event", "edit_event", "delete_event"}

NotionEndpoints ==
    {"list_notion_databases", "list_notion_pages", "get_text_from_notion_page",
     "get_notion_database_pages", "get_notion_database_schema",
     "update_notion_database_entry", "create_notion_entry", "query_notion_database"}

Endpoints == CalendarEndpoints \cup NotionEndpoints

\* The routes that read their parameters from request.get_json().
JsonEndpoints ==
    {"create_event", "edit_event", "update_notion_database_entry",
     "create_notion_entry", "query_notion_database"}

\* The parameters each route refuses to work without.
Required(ep) ==
    CASE ep = "create_event" -> {"summary", "start_time", "end_time"}
      [] ep = "edit_event" -> {"event_id"}
      [] ep = "delete_event" -> {"event_id"}
      [] ep = "get_text_from_notion_page" -> {"page_id"}
      [] ep = "get_notion_database_pages" -> {"database_id"}
      [] ep = "get_notion_database_schema" -> {"database_id"}
      [] ep = "update_notion_database_entry" -> {"page_id", "updated_properties"}
      [] ep = "create_notion_entry" -> {"database_id", "properties"}
      [] ep = "query_notion_database" -> {"database_id"}
      [] OTHER -> {}

----------------------------------------------------------------------------
(* HTTP responses. *)

NoResponse == [status |-> 0, error |-> FALSE, body |-> <<>>]

\* jsonify(value): status 200
Jsonify(value) == [status |-> 200, error |-> FALSE, body |-> value]

\* jsonify({"error": ...}), code  and  abort(code, description=...)
ErrorResponse(code) == [status |-> code, error |-> TRUE, body |-> <<>>]

\* An exception no handler catches: Quart answers 500 Internal Server Error.
Unhandled == ErrorResponse(500)

----------------------------------------------------------------------------
(* Upstream calls. *)

\* One interaction with a provider: which operation, on which thread it ran (the
\* event loop's own thread, or a worker of the default executor), the cursor it was
\* sent with (a block id, for a listing of children), whether it succeeded, and what its response said about further pages.
Call(op, thread, sent, ok, more, next) ==
    [op |-> op, thread |-> thread, cursor |-> sent, ok |-> ok, more |-> more,
     next |-> next]

CalendarOps ==
    {"creds.refresh", "flow.run_local_server", "events.list", "events.insert",
     "events.get", "events.update", "events.delete"}

\* await run_in_executor(f): f runs on a worker of the loop's default executor.
run_in_executor == "executor"

\* A plain call made by a coroutine runs on the event loop's thread.
DirectCall == "loop"

\* await notion.<...>: the Notion client is asynchronous and suspends in place.
Awaited == "async"

PagOps == {"events.list", "databases.query"}

IsPagCall(c) == c.op \in PagOps

PagCalls == SelectSeq(calls, IsPagCall)

----------------------------------------------------------------------------
(* The stub providers behind the two pagination loops. *)

\* The items of page k: pages differ in length (1, 2, 0, 1, ...) and no item is
\* served by two pages.
PageItems(k) == [i \in 1..(k % 3) |-> 10 * k + i]

\* events().list(...).execute(): a page of items and, unless it is absent (None),
\* the token of a further page.
GoogleProviders ==
    UNION {{[k \in 1..n |-> [items |-> PageItems(k), nextPageToken |-> t[k]]]
                : t \in [1..n -> 0..n]} : n \in 1..MaxPages}

\* notion.databases.query(...): a page of results, has_more and next_cursor.
NotionProviders ==
    UNION {{[k \in 1..n |-> [results |-> PageItems(k), has_more |-> h[k],
                             next_cursor |-> t[k]]]
                : t \in [1..n -> 0..n], h \in [1..n -> BOOLEAN]} : n \in 1..MaxPages}

\* The page a provider answers a call with: the first page when no cursor is sent,
\* else the page the cursor names.
ServePage(pages, sent) == pages[IF sent = None THEN 1 ELSE sent]

\* list.extend(more)
extend_replacing(list, more) == more
extend(list, more) == list \o more

----------------------------------------------------------------------------
(* get_calendar_service, called first thing by every calendar route. *)

\* token.json: absent; holding valid credentials; holding expired credentials with a
\* refresh token; holding invalid credentials that cannot be refreshed.
TokenStates == {"absent", "valid", "expired", "unrefreshable"}

get_calendar_service ==
    /\ pc = "start"
    /\ endpoint \in CalendarEndpoints
    /\ \E ok \in BOOLEAN :
        CASE token_file = "valid" ->
                /\ ok
                /\ pc' = "handler"
                /\ UNCHANGED <<token_file, calls, response>>
          [] token_file = "expired" ->
                \* creds.refresh(Request()) is called as it stands
                /\ calls' = Append(calls, Call("creds.refresh", DirectCall, None, ok,
                                               FALSE, None))
                /\ pc' = IF ok THEN "handler" ELSE "done"
                /\ response' = IF ok THEN response ELSE Unhandled
                /\ UNCHANGED token_file
          [] OTHER ->
                \* flow.run_local_server(port=0) is called as it stands; token.json
                \* is written when it returns
                /\ calls' = Append(calls, Call("flow.run_local_server", DirectCall,
                                               None, ok, FALSE, None))
                /\ token_file' = IF ok THEN "valid" ELSE token_file
                /\ pc' = IF ok THEN "handler" ELSE "done"
                /\ response' = IF ok THEN response ELSE Unhandled
    /\ UNCHANGED <<envVars, loopVars, blockVars>>

----------------------------------------------------------------------------
(* The calendar routes, after get_calendar_service. *)

\* if not page_token: break
read_events_break(page_token) == page_token = None

\* except Exception as e: abort(500, description=str(e))   (events is in scope)
read_events_except(events) == ErrorResponse(500)

\* One turn of read_events' while loop, and the return or the abort that ends it.
read_events ==
    /\ pc = "handler"
    /\ endpoint = "read_events"
    /\ Len(PagCalls) < MaxCalls
    /\ \E ok \in BOOLEAN :
        LET events_result == ServePage(provider, cursor)
            events == extend(acc, Get(events_result, "items", <<>>))
            page_token == Get(events_result, "nextPageToken", None)
        IN  IF ok
            THEN /\ calls' = Append(calls, Call("events.list", run_in_executor, cursor,
                                                TRUE, page_token # None, page_token))
                 /\ acc' = events
                 /\ cursor' = page_token
                 /\ pc' = IF read_events_break(page_token) THEN "done" ELSE pc
                 /\ response' = IF read_events_break(page_token)
                                THEN Jsonify(events) ELSE response
            ELSE /\ calls' = Append(calls, Call("events.list", run_in_executor, cursor,
                                                FALSE, FALSE, None))
                 /\ pc' = "done"
                 /\ response' = read_events_except(acc)
                 /\ UNCHANGED loopVars
    /\ UNCHANGED <<envVars, token_file, blockVars>>

\* if not all([summary, start_time, end_time])
create_event_missing(a) ==
    ~(Truthy(a["summary"]) /\ Truthy(a["start_time"]) /\ Truthy(a["end_time"]))

create_event ==
    /\ pc = "handler"
    /\ endpoint = "create_event"
    /\ \E ok \in BOOLEAN :
        IF json_body = "none"
        THEN \* data is None: data.get raises outside any try
             /\ ok
             /\ response' = Unhandled
             /\ UNCHANGED calls
        ELSE IF create_event_missing(args)
        THEN /\ ok
             /\ response' = ErrorResponse(400)
             /\ UNCHANGED calls
        ELSE /\ calls' = Append(calls, Call("events.insert", run_in_executor, None, ok,
                                            FALSE, None))
             /\ response' = IF ok THEN Jsonify(<<>>) ELSE ErrorResponse(500)
    /\ pc' = "done"
    /\ UNCHANGED <<envVars, token_file, loopVars, blockVars>>

\* edit_event up to the event's retrieval.
edit_event_get ==
    /\ pc = "handler"
    /\ endpoint = "edit_event"
    /\ \E ok \in BOOLEAN :
        IF json_body = "none"
        THEN /\ ok
             /\ pc' = "done"
             /\ response' = Unhandled
             /\ UNCHANGED calls
        ELSE IF ~Truthy(args["event_id"])
        THEN /\ ok
             /\ pc' = "done"
             /\ response' = ErrorResponse(400)
             /\ UNCHANGED calls
        ELSE /\ calls' = Append(calls, Call("events.get", run_in_executor, None, ok,
                                            FALSE, None))
             /\ pc' = IF ok THEN "update" ELSE "done"
             /\ response' = IF ok THEN response ELSE ErrorResponse(500)
    /\ UNCHANGED <<envVars, token_file, loopVars, blockVars>>

\* edit_event from the patching of the fetched event to the update.
edit_event_update ==
    /\ pc = "update"
    /\ endpoint = "edit_event"
    /\ \E ok \in BOOLEAN :
        /\ calls' = Append(calls, Call("events.update", run_in_executor, None, ok,
                                       FALSE, None))
        /\ response' = IF ok THEN Jsonify(<<>>) ELSE ErrorResponse(500)
    /\ pc' = "done"
    /\ UNCHANGED <<envVars, token_file, loopVars, blockVars>>

delete_event ==
    /\ pc = "handler"
    /\ endpoint = "delete_event"
    /\ \E ok \in BOOLEAN :
        IF ~Truthy(args["event_id"])
        THEN /\ ok
             /\ response' = ErrorResponse(400)
             /\ UNCHANGED calls
        ELSE /\ calls' = Append(calls, Call("events.delete", run_in_executor, None, ok,
                                            FALSE, None))
             /\ response' = IF ok THEN Jsonify(<<>>) ELSE ErrorResponse(500)
    /\ pc' = "done"
    /\ UNCHANGED <<envVars, token_file, loopVars, blockVars>>

----------------------------------------------------------------------------
(* Notion blocks. *)

TextTypes ==
    {"paragraph", "heading_1", "heading_2", "heading_3", "bulleted_list_item",
     "numbered_list_item", "to_do"}

HeadingTypes == {"heading_1", "heading_2", "heading_3"}

\* A block dict: its payload sits under the key its type names.
BlockDict(id, type, has_children, payload) ==
    [id |-> id, type |-> type, has_children |-> has_children] @@ (type :> payload)

\* The types the blocks of a page take in turn.
PageBlockTypes == <<"paragraph", "heading_2", "child_page", "image", "to_do">>

\* The ids of the children of block b, in the order the provider lists them.
ChildIds(t, b) == SelectSeq([i \in 1..Len(t) |-> i], LAMBDA i : t[i] = b)

\* Block i of the page.  The root (the page itself) has id 0.
PageBlock(t, i) ==
    LET type == PageBlockTypes[((i - 1) % Len(PageBlockTypes)) + 1]
        payload == IF type \in TextTypes
                   THEN [rich_text |-> <<[plain_text |-> "block "],
                                         [plain_text |-> ToString(i)]>>]
                   ELSE IF type = "child_page" THEN [title |-> "Sub page"]
                   ELSE EmptyDict
    IN  BlockDict(i, type, ChildIds(t, i) # <<>>, payload)

\* notion.blocks.children.list(block_id=b): the children of b, all in one page.
children_list(t, b) ==
    LET ids == ChildIds(t, b)
    IN  [results |-> [k \in 1..Len(ids) |-> PageBlock(t, ids[k])]]

\* The trees of n blocks below the root: the parent of block i is the root or an
\* earlier block.
Trees(n) == {t \in [1..n -> 0..n] : \A i \in 1..n : t[i] < i}

----------------------------------------------------------------------------
(* retrieve_all_blocks *)

\* What str(e) may be, for an exception e of the Notion client.
ErrorMessages == {"", "Request to Notion API has timed out"}

\* if block.get("has_children", False)
always_leaf(block) == FALSE
has_children(block) == Get(block, "has_children", FALSE)

\* for block in block_children: append it, and schedule it if it has children
RECURSIVE for_block_in(_, _, _)
for_block_in(block_children, collected, to_process) ==
    IF block_children = <<>>
    THEN [collected |-> collected, to_process |-> to_process]
    ELSE LET block == Head(block_children)
         IN  for_block_in(Tail(block_children), Append(collected, block),
                          IF has_children(block)
                          THEN Append(to_process, block["id"]) ELSE to_process)

Returned(kind, blocks, text) == [kind |-> kind, blocks |-> blocks, text |-> text]

NotReturned == Returned("none", <<>>, "")

\* One turn of retrieve_all_blocks' while loop, and the return that ends it.
retrieve_all_blocks ==
    /\ pc = "traverse"
    /\ blocks_to_process # <<>>
    /\ \E ok \in BOOLEAN, message \in ErrorMessages :
        LET n == Len(blocks_to_process)
            current_block_id == blocks_to_process[n]        \* pop()
            rest == SubSeq(blocks_to_process, 1, n - 1)
            after == for_block_in(Get(children_list(tree, current_block_id),
                                      "results", <<>>),
                                  collected_blocks, rest)
        IN  IF ok
            THEN /\ message = ""
                 /\ calls' = Append(calls, Call("blocks.children.list", Awaited,
                                                current_block_id, TRUE, FALSE, None))
                 /\ collected_blocks' = after.collected
                 /\ blocks_to_process' = after.to_process
                 /\ IF after.to_process = <<>>
                    THEN /\ retrieved' = Returned("list", after.collected, "")
                         /\ pc' = "extract"
                    ELSE UNCHANGED <<retrieved, pc>>
            ELSE /\ calls' = Append(calls, Call("blocks.children.list", Awaited,
                                                current_block_id, FALSE, FALSE, None))
                 /\ blocks_to_process' = rest
                 /\ retrieved' = Returned("str", <<>>, message)   \* return str(e)
                 /\ pc' = "extract"
                 /\ UNCHANGED collected_blocks
    /\ UNCHANGED <<envVars, token_file, loopVars, response>>

----------------------------------------------------------------------------
(* extract_text_from_blocks *)

\* "".join(text_pieces)
RECURSIVE join_with_space(_)
join_with_space(text_pieces) ==
    IF text_pieces = <<>> THEN ""
    ELSE IF Len(text_pieces) = 1 THEN Head(text_pieces)
    ELSE Head(text_pieces) \o " " \o join_with_space(Tail(text_pieces))

RECURSIVE join(_)
join(text_pieces) ==
    IF text_pieces = <<>> THEN "" ELSE Head(text_pieces) \o join(Tail(text_pieces))

\* The body of the for loop: what one block adds to text_content.
extract_block(text_content, block) ==
    LET block_type == block["type"]
        block_data == Get(block, block_type, EmptyDict)
    IN  IF block_type \in TextTypes
        THEN LET text_elements == Get(block_data, "rich_text", <<>>)
                 text_pieces == [i \in 1..Len(text_elements) |->
                                    Get(text_elements[i], "plain_text", "")]
             IN  IF block_type \in HeadingTypes
                 THEN Append(text_content, "**" \o join(text_pieces) \o "**")
                 ELSE Append(text_content, join(text_pieces))
        ELSE IF block_type = "child_page"
        THEN Append(text_content, Get(block_data, "title", ""))
        ELSE text_content

RECURSIVE extract_loop(_, _)
extract_loop(text_content, blocks) ==
    IF blocks = <<>> THEN text_content
    ELSE extract_loop(extract_block(text_content, Head(blocks)), Tail(blocks))

extract_text_from_blocks(blocks) == extract_loop(<<>>, blocks)

\* get_all_text_on_page: extract_text_from_blocks applied to whatever
\* retrieve_all_blocks returned.  Given a string it iterates over its characters,
\* and block.get raises AttributeError on the first of them.
get_all_text_on_page(r) ==
    IF r.kind = "list"
    THEN [raised |-> FALSE, value |-> extract_text_from_blocks(r.blocks)]
    ELSE [raised |-> r.text # "", value |-> <<>>]

\* get_text_from_notion_page up to the call of retrieve_all_blocks.
get_text_from_notion_page_begin ==
    /\ pc = "start"
    /\ endpoint = "get_text_from_notion_page"
    /\ IF ~Truthy(args["page_id"])
       THEN /\ pc' = "done"
            /\ response' = ErrorResponse(400)
            /\ UNCHANGED blocks_to_process
       ELSE /\ pc' = "traverse"
            /\ blocks_to_process' = <<0>>
            /\ UNCHANGED response
    /\ UNCHANGED <<envVars, token_file, loopVars, collected_blocks, retrieved, calls>>

\* get_text_from_notion_page from the return of retrieve_all_blocks on.
get_text_from_notion_page ==
    /\ pc = "extract"
    /\ LET all_text == get_all_text_on_page(retrieved)
       IN  response' = IF all_text.raised
                       THEN ErrorResponse(500) ELSE Jsonify(all_text.value)
    /\ pc' = "done"
    /\ UNCHANGED <<envVars, token_file, loopVars, blockVars, calls>>

----------------------------------------------------------------------------
(* The other Notion routes. *)

list_notion_databases ==
    /\ pc = "start"
    /\ endpoint = "list_notion_databases"
    /\ \E ok \in BOOLEAN :
        /\ calls' = Append(calls, Call("search", Awaited, None, ok, FALSE, None))
        /\ response' = IF ok THEN Jsonify(<<>>) ELSE ErrorResponse(500)
    /\ pc' = "done"
    /\ UNCHANGED <<envVars, token_file, loopVars, blockVars>>

list_notion_pages ==
    /\ pc = "start"
    /\ endpoint = "list_notion_pages"
    /\ \E ok \in BOOLEAN :
        /\ calls' = Append(calls, Call("search", Awaited, None, ok, FALSE, None))
        /\ response' = IF ok THEN Jsonify(<<>>) ELSE ErrorResponse(500)
    /\ pc' = "done"
    /\ UNCHANGED <<envVars, token_file, loopVars, blockVars>>

\* pages = await query_database(database_id): the module defines no query_database,
\* so the name lookup raises NameError, which the route's except clause answers.
get_notion_database_pages ==
    /\ pc = "start"
    /\ endpoint = "get_notion_database_pages"
    /\ response' = IF ~Truthy(args["database_id"])
                   THEN ErrorResponse(400) ELSE ErrorResponse(500)
    /\ pc' = "done"
    /\ UNCHANGED <<envVars, token_file, loopVars, blockVars, calls>>

\* get_database_schema: the schema, or str(e) when the retrieval raises.
get_database_schema(ok, message) == IF ok THEN <<"schema">> ELSE <<message>>

get_notion_database_schema ==
    /\ pc = "start"
    /\ endpoint = "get_notion_database_schema"
    /\ \E ok \in BOOLEAN, message \in ErrorMessages :
        IF ~Truthy(args["database_id"])
        THEN /\ ok /\ message = ""
             /\ response' = ErrorResponse(400)
             /\ UNCHANGED calls
        ELSE /\ ok => message = ""
             /\ calls' = Append(calls, Call("databases.retrieve", Awaited, None, ok,
                                            FALSE, None))
             /\ response' = Jsonify(get_database_schema(ok, message))
    /\ pc' = "done"
    /\ UNCHANGED <<envVars, token_file, loopVars, blockVars>>

update_notion_database_entry ==
    /\ pc = "start"
    /\ endpoint = "update_notion_database_entry"
    /\ \E ok \in BOOLEAN :
        IF json_body = "none"
        THEN /\ ok
             /\ response' = Unhandled
             /\ UNCHANGED calls
        ELSE IF ~Truthy(args["page_id"]) \/ ~Truthy(args["updated_properties"])
        THEN /\ ok
             /\ response' = ErrorResponse(400)
             /\ UNCHANGED calls
        ELSE /\ calls' = Append(calls, Call("pages.update", Awaited, None, ok, FALSE,
                                            None))
             /\ response' = IF ok THEN Jsonify(<<>>) ELSE ErrorResponse(500)
    /\ pc' = "done"
    /\ UNCHANGED <<envVars, token_file, loopVars, blockVars>>

create_notion_entry ==
    /\ pc = "start"
    /\ endpoint = "create_notion_entry"
    /\ \E ok \in BOOLEAN :
        IF json_body = "none"
        THEN /\ ok
             /\ response' = Unhandled
             /\ UNCHANGED calls
        ELSE IF ~Truthy(args["database_id"]) \/ ~Truthy(args["properties"])
        THEN /\ ok
             /\ response' = ErrorResponse(400)
             /\ UNCHANGED calls
        ELSE /\ calls' = Append(calls, Call("pages.create", Awaited, None, ok, FALSE,
                                            None))
             /\ response' = IF ok THEN Jsonify(<<>>) ELSE ErrorResponse(500)
    /\ pc' = "done"
    /\ UNCHANGED <<envVars, token_file, loopVars, blockVars>>

\* query_notion_database up to its while loop.
query_notion_database_begin ==
    /\ pc = "start"
    /\ endpoint = "query_notion_database"
    /\ IF json_body = "none"
       THEN /\ pc' = "done"
            /\ response' = Unhandled
       ELSE IF ~Truthy(args["database_id"])
       THEN /\ pc' = "done"
            /\ response' = ErrorResponse(400)
       ELSE /\ pc' = "loop"
            /\ UNCHANGED response
    /\ UNCHANGED <<envVars, token_file, loopVars, blockVars, calls>>

\* if not has_more: break
query_break_without_cursor(query_response) ==
    Get(query_response, "next_cursor", None) = None
query_break(query_response) == ~Get(query_response, "has_more", FALSE)

\* except Exception as e: return jsonify({"error": str(e)}), 500  (results is in scope)
query_except_partial(results) == Jsonify(results)
query_except(results) == ErrorResponse(500)

\* One turn of query_notion_database's while loop, and the return that ends it.
query_notion_database ==
    /\ pc = "loop"
    /\ endpoint = "query_notion_database"
    /\ Len(PagCalls) < MaxCalls
    /\ \E ok \in BOOLEAN :
        LET query_response == ServePage(provider, cursor)
            results == extend(acc, Get(query_response, "results", <<>>))
            start_cursor == Get(query_response, "next_cursor", None)
        IN  IF ok
            THEN /\ calls' = Append(calls, Call("databases.query", Awaited, cursor, TRUE,
                                                query_response.has_more, start_cursor))
                 /\ acc' = results
                 /\ cursor' = start_cursor
                 /\ pc' = IF query_break(query_response) THEN "done" ELSE pc
                 /\ response' = IF query_break(query_response)
                                THEN Jsonify(results) ELSE response
            ELSE /\ calls' = Append(calls, Call("databases.query", Awaited, cursor,
                                                FALSE, FALSE, None))
                 /\ pc' = "done"
                 /\ response' = query_except(acc)
                 /\ UNCHANGED loopVars
    /\ UNCHANGED <<envVars, token_file, blockVars>>

----------------------------------------------------------------------------
(* A request arrives. *)

\* The parameters of a request: with no JSON body there are none.
Requests(ep, body) ==
    IF body = "none" THEN {[p \in Required(ep) |-> "absent"]}
    ELSE [Required(ep) -> ArgValues]

Init ==
    /\ endpoint \in Endpoints
    /\ json_body \in IF endpoint \in JsonEndpoints THEN {"object", "none"}
                     ELSE {"object"}
    /\ args \in Requests(endpoint, json_body)
    /\ token_file \in IF endpoint \in CalendarEndpoints THEN TokenStates ELSE {"valid"}
    /\ provider \in CASE endpoint = "read_events" -> GoogleProviders
                      [] endpoint = "query_notion_database" -> NotionProviders
                      [] OTHER -> {<<>>}
    /\ tree \in IF endpoint = "get_text_from_notion_page"
                THEN UNION {Trees(n) : n \in 0..MaxBlocks} ELSE {<<>>}
    /\ pc = "start"
    /\ acc = <<>>
    /\ cursor = None
    /\ blocks_to_process = <<>>
    /\ collected_blocks = <<>>
    /\ retrieved = NotReturned
    /\ calls = <<>>
    /\ response = NoResponse

Next ==
    \/ get_calendar_service
    \/ read_events
    \/ create_event
    \/ edit_event_get
    \/ edit_event_update
    \/ delete_event
    \/ list_notion_databases
    \/ list_notion_pages
    \/ get_text_from_notion_page_begin
    \/ retrieve_all_blocks
    \/ get_text_from_notion_page
    \/ get_notion_database_pages
    \/ get_notion_database_schema
    \/ update_notion_database_entry
    \/ create_notion_entry
    \/ query_notion_database_begin
    \/ query_notion_database

Spec == Init /\ [][Next]_vars

----------------------------------------------------------------------------
(* extract_text_from_blocks on its own: get_text_from_notion_page at the point  *)
(* where retrieve_all_blocks has returned a list of blocks, any of the block    *)
(* sequences below.                                                            *)

TextBlock(type, spans) == BlockDict(0, type, FALSE, [rich_text |-> spans])

SpansHello == <<[plain_text |-> "Hello"], [plain_text |-> " World"]>>
SpansAB == <<[plain_text |-> "a"], [plain_text |-> "b"]>>
\* a span without plain_text
SpansBare == <<[plain_text |-> "a"], EmptyDict>>

BlockInputs ==
    {TextBlock("paragraph", SpansAB), TextBlock("paragraph", SpansBare),
     TextBlock("heading_1", SpansHello), TextBlock("heading_1", <<>>),
     TextBlock("heading_2", SpansAB), TextBlock("heading_3", SpansAB),
     TextBlock("bulleted_list_item", SpansAB),
     TextBlock("numbered_list_item", SpansHello),
     TextBlock("to_do", SpansAB),
     BlockDict(0, "child_page", FALSE, [title |-> "Sub page"]),
     BlockDict(0, "child_page", FALSE, EmptyDict),
     BlockDict(0, "image", FALSE, EmptyDict)}

BlockSeqs == UNION {[1..n -> BlockInputs] : n \in 0..MaxSeq}

InitText ==
    /\ endpoint = "get_text_from_notion_page"
    /\ json_body = "object"
    /\ args = [p \in Required(endpoint) |-> "value"]
    /\ token_file = "valid"
    /\ provider = <<>>
    /\ tree = <<>>
    /\ pc = "extract"
    /\ acc = <<>>
    /\ cursor = None
    /\ blocks_to_process = <<>>
    /\ collected_blocks \in BlockSeqs
    /\ retrieved = Returned("list", collected_blocks, "")
    /\ calls = <<>>
    /\ response = NoResponse

NextText == get_text_from_notion_page

SpecText == InitText /\ [][NextText]_vars

----------------------------------------------------------------------------
(* Properties of the pagination loops. *)

PagEndpoints == {"read_events", "query_notion_database"}

\* The provider's pages chain 1 -> 2 -> ... -> N and only page N signals completion.
WellBehaved ==
    LET n == Len(provider)
    IN  IF endpoint = "read_events"
        THEN /\ \A k \in 1..(n - 1) : provider[k].nextPageToken = k + 1
             /\ provider[n].nextPageToken = None
        ELSE /\ \A k \in 1..(n - 1) : /\ provider[k].has_more
                                      /\ provider[k].next_cursor = k + 1
             /\ ~provider[n].has_more

ItemsOfPage(page) == IF endpoint = "read_events" THEN page.items ELSE page.results

TokenOfPage(page) ==
    IF endpoint = "read_events" THEN page.nextPageToken ELSE page.next_cursor

\* The items of pages 1..k, in page order.
RECURSIVE FirstPages(_)
FirstPages(k) ==
    IF k = 0 THEN <<>> ELSE FirstPages(k - 1) \o ItemsOfPage(provider[k])

NoDuplicates(seq) == \A i, j \in 1..Len(seq) : i # j => seq[i] # seq[j]

AllOk(log) == \A i \in 1..Len(log) : log[i].ok

\* C1: against a provider that serves N >= 1 pages and signals completion only on
\* the last, each pagination loop answers with the concatenation of the N pages'
\* items in page order, every item once, having made N calls of which the first
\* carried no cursor and each later one the token of the previous response.
C1_PaginationConcatenates ==
    (endpoint \in PagEndpoints /\ WellBehaved /\ AllOk(PagCalls)) =>
        /\ acc = FirstPages(Len(PagCalls))
        /\ \A i \in 1..Len(PagCalls) :
              PagCalls[i].cursor = IF i = 1 THEN None ELSE TokenOfPage(provider[i - 1])
        /\ (PagCalls # <<>> /\ pc = "done") =>
              /\ Len(PagCalls) = Len(provider)
              /\ response = Jsonify(FirstPages(Len(provider)))
              /\ NoDuplicates(response.body)

C1_Witness ==
    /\ endpoint = "query_notion_database"
    /\ WellBehaved
    /\ Len(provider) = 3
    /\ response.status = 200
    /\ Len(response.body) = 3

\* C2: when the upstream call of a pagination loop fails on page k, no further
\* upstream call is made and the response is a 500 error that carries none of the
\* items accumulated from pages 1..k-1.
C2_FailureDiscardsPartial ==
    \A k \in 1..Len(PagCalls) :
        ~PagCalls[k].ok =>
            /\ k = Len(PagCalls)
            /\ calls[Len(calls)] = PagCalls[k]
            /\ pc = "done"
            /\ response.status = 500
            /\ response.error
            /\ \A i \in 1..Len(acc) : \A j \in 1..Len(response.body) :
                  response.body[j] # acc[i]

C2_Witness ==
    /\ endpoint = "query_notion_database"
    /\ Len(PagCalls) = 3
    /\ ~PagCalls[3].ok
    /\ Len(acc) = 3
    /\ response.status = 500

\* C9: a pagination loop makes no call after the first response that signals
\* completion, and has no page cap: while every response so far signalled more
\* pages, the loop has not answered and issues a further call.
C9_StopsOnlyOnCompletion ==
    endpoint \in PagEndpoints =>
        /\ \A k \in 1..Len(PagCalls) :
              (PagCalls[k].ok /\ ~PagCalls[k].more) =>
                  /\ k = Len(PagCalls)
                  /\ pc = "done"
                  /\ response.status = 200
        /\ (PagCalls # <<>> /\ \A k \in 1..Len(PagCalls) :
                                  PagCalls[k].ok /\ PagCalls[k].more) =>
              /\ pc # "done"
              /\ response = NoResponse
              /\ Len(PagCalls) < MaxCalls =>
                    ENABLED (read_events \/ query_notion_database)

C9_Witness ==
    /\ endpoint = "read_events"
    /\ Len(PagCalls) >= 4
    /\ \A k \in 1..Len(PagCalls) : PagCalls[k].ok /\ PagCalls[k].more
    /\ response = NoResponse

----------------------------------------------------------------------------
(* Properties of retrieve_all_blocks. *)

FetchCalls == SelectSeq(calls, LAMBDA c : c.op = "blocks.children.list")

\* The position of block id in the output so far, 0 when it is not there.
PositionOf(id) ==
    IF \E i \in 1..Len(collected_blocks) : collected_blocks[i]["id"] = id
    THEN CHOOSE i \in 1..Len(collected_blocks) : collected_blocks[i]["id"] = id
    ELSE 0

\* C3: on a finite block tree whose nodes' children each fit one page,
\* retrieve_all_blocks, unless a fetch fails, ends with an empty work list and
\* returns every block below the root exactly once, each after its parent block;
\* it fetches no block's children twice, so it makes at most one fetch per node.
C3_FlattenerVisitsOnce ==
    endpoint = "get_text_from_notion_page" =>
        /\ \A i, j \in 1..Len(collected_blocks) :
              i # j => collected_blocks[i]["id"] # collected_blocks[j]["id"]
        /\ \A i, j \in 1..Len(FetchCalls) :
              i # j => FetchCalls[i].cursor # FetchCalls[j].cursor
        /\ Len(FetchCalls) <= Len(tree) + 1
        /\ \A i \in 1..Len(collected_blocks) :
              LET id == collected_blocks[i]["id"]
              IN  /\ id \in 1..Len(tree)
                  /\ collected_blocks[i] = PageBlock(tree, id)
                  /\ tree[id] # 0 => (PositionOf(tree[id]) \in 1..(i - 1))
        /\ pc = "traverse" => blocks_to_process # <<>>
        /\ retrieved.kind = "list" =>
              /\ blocks_to_process = <<>>
              /\ retrieved.blocks = collected_blocks
              /\ Len(collected_blocks) = Len(tree)
              /\ \A id \in 1..Len(tree) : PositionOf(id) # 0

\* The tree of the specification's example: two children, one with two children.
C3_Witness ==
    /\ endpoint = "get_text_from_notion_page"
    /\ tree = <<0, 0, 1, 1>>
    /\ retrieved.kind = "list"
    /\ Len(retrieved.blocks) = 4
    /\ Len(FetchCalls) = 2

----------------------------------------------------------------------------
(* Properties of extract_text_from_blocks. *)

PlainTypes == {"paragraph", "bulleted_list_item", "numbered_list_item", "to_do"}

Recognized(block) == block["type"] \in PlainTypes \cup HeadingTypes \cup {"child_page"}

\* The plain_text values of spans, in order, with nothing between them.
RECURSIVE SpanText(_)
SpanText(spans) ==
    IF spans = <<>> THEN ""
    ELSE LET n == Len(spans)
             last == IF "plain_text" \in DOMAIN spans[n]
                     THEN spans[n].plain_text ELSE ""
         IN  SpanText(SubSeq(spans, 1, n - 1)) \o last

\* The string the specification assigns to a recognized block.
Rendered(block) ==
    LET type == block["type"]
    IN  IF type \in PlainTypes THEN SpanText(block[type].rich_text)
        ELSE IF type \in HeadingTypes
        THEN "**" \o SpanText(block[type].rich_text) \o "**"
        ELSE IF "title" \in DOMAIN block[type] THEN block[type].title ELSE ""

\* C10: the text extracted from a block sequence has one entry per recognized
\* block and none for any other block, in input order, with nothing merged:
\* the spans' plain_text run together for a paragraph, bulleted, numbered or to_do
\* block, the same between "**" and "**" for a heading, the title (or "") for a
\* child_page.
C10_ExtractorMapsInOrder ==
    (pc = "done" /\ retrieved.kind = "list") =>
        LET blocks == retrieved.blocks
            recognized == {i \in 1..Len(blocks) : Recognized(blocks[i])}
            rank(i) == Cardinality({j \in recognized : j <= i})
        IN  /\ response.status = 200
            /\ Len(response.body) = Cardinality(recognized)
            /\ \A i \in recognized : response.body[rank(i)] = Rendered(blocks[i])

C10_Witness ==
    /\ pc = "done"
    /\ Len(retrieved.blocks) = 3
    /\ retrieved.blocks[2]["type"] = "image"
    /\ response.body = <<"**Hello World**", "ab">>

----------------------------------------------------------------------------
(* Properties of the routes. *)

\* C4: on every route, a request during which an upstream call failed is answered
\* with a 5xx status and an error object, never with a success status.
C4_UpstreamFailureIs5xx ==
    (pc = "done" /\ ~AllOk(calls)) =>
        /\ response.status \in 500..599
        /\ response.error

\* C5: on every route with required parameters, a request that lacks one of them
\* is answered 4xx, never 5xx, whatever token.json holds and whatever else the
\* request carries.
C5_MissingParameterIs4xx ==
    (pc = "done" /\ \E p \in Required(endpoint) : args[p] = "absent") =>
        response.status \in 400..499

\* C6: a create-event request lacking summary, start_time or end_time is rejected
\* with 400 before any interaction with the calendar provider (credential refresh,
\* authorization flow, events().insert).
C6_RejectedBeforeUpstream ==
    (endpoint = "create_event" /\ response.status = 400) =>
        \A i \in 1..Len(calls) : calls[i].op \notin CalendarOps

\* C7: every blocking call into the calendar provider, credential refresh and
\* authorization included, runs on a worker of the executor and never on the
\* event loop's own thread.
C7_CalendarCallsOffloaded ==
    \A i \in 1..Len(calls) :
        calls[i].op \in CalendarOps => calls[i].thread = run_in_executor

\* C8: GET /get_notion_database_pages with a database_id, on a working upstream,
\* answers successfully with the records of the database.
C8_DatabasePagesSucceeds ==
    (endpoint = "get_notion_database_pages" /\ Truthy(args["database_id"])
        /\ pc = "done" /\ AllOk(calls)) =>
        /\ response.status = 200
        /\ ~response.error

====
